---- MODULE Spec2Model ----
(***************************************************************************)
(* Model of MLHelper: the hypothesis-testing engine (TestHypothesis,       *)
(* hypothesis_testing.py) and the tabular loader (DataLoader,              *)
(* data_loader.py).                                                        *)
(*                                                                         *)
(* Probabilities are integers in per mille: 0.05 is 50.  A numeric sample  *)
(* is the record of what the code reads from it: its length, the p-value   *)
(* the normality test applicable to its length gives it, and whether its   *)
(* sample variance is zero.  The scipy tests are oracles: the p-value of a *)
(* test over several samples is an input of the operation, and every call  *)
(* to the library is appended, in program order, to the trace "calls".     *)
(***************************************************************************)
EXTENDS Integers, Sequences, FiniteSets, TLC

\* ------------------------------------------------------------ constants
AlphaDefault == 50      \* significance_level = 0.05
KSLimit == 5000         \* len(feature) > 5000 selects kstest
CLTLimit == 30          \* len(feature) <= 30 blocks the CLT relaxation
LowFreq == 5            \* expected < 5
FisherLen == 5          \* len(feature) >= 5 suggests chi-square

\* --------------------------------------------------------------- bounds
LenSpan == 1            \* lengths CLTLimit+1-LenSpan .. CLTLimit+LenSpan
PSpan == 2              \* p-values AlphaDefault-1 .. AlphaDefault+PSpan
MaxSamples == 2         \* longest variadic list of samples
MaxCell == 6            \* largest observed count of a contingency cell
MaxTables == 2          \* distinct file contents the loader can read

Alphas == {AlphaDefault, AlphaDefault + 1}
PVals == (AlphaDefault - 1)..(AlphaDefault + PSpan)
Lens == ((CLTLimit + 1 - LenSpan)..(CLTLimit + LenSpan)) \cup {KSLimit + 1}

\* numeric samples; only pearsonCorrelation reads the variance
Samples == [len : Lens, pnorm : PVals, var0 : {FALSE}]
VarSamples == [len : Lens, pnorm : PVals, var0 : BOOLEAN]
\* categorical sequences of fisherExacttest: only their length is read
CatSamples == [len : (FisherLen - 1)..FisherLen, pnorm : {0}, var0 : {FALSE}]

SampleLists == UNION {[1..n -> Samples] : n \in 2..MaxSamples}

VARIABLES
    self,        \* the TestHypothesis instance: its attributes
    ctor_alpha,  \* the argument the constructor was called with
    pc,          \* "idle": no call in progress; "done": a call has ended
    op,          \* the operation that ended
    args,        \* its arguments
    calls,       \* scipy.stats calls it made, in order: [fn, p]
    outcome,     \* "returned", "ValueError" (raised by the operation itself)
                 \* or "LibraryError" (raised inside a library routine)
    message,     \* the text of the ValueError
    result,      \* the returned pair (rejected, p_value)
    stdout,      \* lines printed
    warned,      \* warnings.warn messages
    answer,      \* the boolean a predicate returned
    data,        \* DataLoader.data
    last_ok,     \* the table of the most recent load that returned normally
    lop,         \* the loader operation that ended last
    largs,       \* its arguments
    read_tried,  \* whether it called pd.read_csv / pd.read_excel
    lraised,     \* "", "ValueError" or "RuntimeError": how it ended
    lret         \* what it returned

engine_vars == <<self, ctor_alpha, pc, op, args, calls, outcome, message,
                 result, stdout, warned, answer>>
loader_vars == <<data, last_ok, lop, largs, read_tried, lraised, lret>>
vars == <<self, ctor_alpha, pc, op, args, calls, outcome, message,
          result, stdout, warned, answer, data, last_ok, lop, largs, read_tried,
          lraised, lret>>

NoResult == [rejected |-> FALSE, p_value |-> -1]
Args(features, clt, ct, method) ==
    [features |-> features, clt |-> clt, ct |-> ct, method |-> method,
     p_value |-> -1]
NoArgs == Args(<<>>, FALSE, <<>>, "")

MsgRejected == "Null Hypothesis rejected.\nThere is a significance difference."
MsgNotEnough == "Not enough evidence to reject Null Hypotheses.\nThere is no significance difference."

\* ------------------------------------------------- construction
TestHypothesisInitDefault(significance_level) ==
    [significance_level |-> AlphaDefault]

TestHypothesisInit(significance_level) ==
    [significance_level |-> significance_level]

\* ------------------------------------------------- shared predicates
Call(fn, p) == [fn |-> fn, p |-> p]

\* isNormal: [calls, ret]
isNormal(slf, feature) ==
    LET fn == IF feature.len > KSLimit THEN "kstest" ELSE "shapiro"
        p_value == feature.pnorm
    IN  [calls |-> <<Call(fn, p_value)>>,
         ret |-> p_value > slf.significance_level]

\* checkSignificance: [stdout, ret]
checkSignificanceLE(slf, p_value) ==
    IF p_value <= slf.significance_level
    THEN [stdout |-> <<MsgRejected>>,
          ret |-> [rejected |-> TRUE, p_value |-> p_value]]
    ELSE [stdout |-> <<MsgNotEnough>>,
          ret |-> [rejected |-> FALSE, p_value |-> p_value]]

checkSignificance(slf, p_value) ==
    IF p_value < slf.significance_level
    THEN [stdout |-> <<MsgRejected>>,
          ret |-> [rejected |-> TRUE, p_value |-> p_value]]
    ELSE [stdout |-> <<MsgNotEnough>>,
          ret |-> [rejected |-> FALSE, p_value |-> p_value]]

\* How an operation ends.
Raise(cs, ws, msg) ==
    [calls |-> cs, warned |-> ws, outcome |-> "ValueError", message |-> msg,
     result |-> NoResult, stdout |-> <<>>]

LibraryRaise(cs, ws) ==
    [calls |-> cs, warned |-> ws, outcome |-> "LibraryError", message |-> "",
     result |-> NoResult, stdout |-> <<>>]

\* return self.checkSignificance(p_value)
ReturnSignificance(slf, cs, ws, p_value) ==
    LET v == checkSignificance(slf, p_value)
    IN  [calls |-> cs, warned |-> ws, outcome |-> "returned", message |-> "",
         result |-> v.ret, stdout |-> v.stdout]

\* the generator inside any(...) of hasEqualVariance: isNormal is called on
\* the features in order until the first that is not normal
RECURSIVE anyNotNormal(_, _, _)
anyNotNormal(slf, features, i) ==
    IF i > Len(features) THEN [calls |-> <<>>, ret |-> FALSE]
    ELSE LET n == isNormal(slf, features[i])
         IN  IF ~n.ret THEN [calls |-> n.calls, ret |-> TRUE]
             ELSE LET rest == anyNotNormal(slf, features, i + 1)
                  IN  [calls |-> n.calls \o rest.calls, ret |-> rest.ret]

\* hasEqualVariance: [calls, raised, message, ret]; p_var is the p-value the
\* variance test gives
hasEqualVariance(slf, features, method, p_var) ==
    IF method = "bartlett"
    THEN LET a == anyNotNormal(slf, features, 1)
         IN  IF a.ret
             THEN [calls |-> a.calls, raised |-> TRUE,
                   message |-> "Bartlett's test requires normality.",
                   ret |-> FALSE]
             ELSE [calls |-> Append(a.calls, Call("bartlett", p_var)),
                   raised |-> FALSE, message |-> "",
                   ret |-> p_var > slf.significance_level]
    ELSE [calls |-> <<Call("levene", p_var)>>, raised |-> FALSE,
          message |-> "", ret |-> p_var > slf.significance_level]

\* ------------------------------------------------- parametric tests
OneSampleTtestLT(slf, feature, clt, p_t) ==
    LET n == isNormal(slf, feature)
    IN  IF ~n.ret /\ ~clt
        THEN Raise(n.calls, <<>>, "Sample is not Normally distributed")
        ELSE IF ~n.ret /\ feature.len < CLTLimit
        THEN Raise(n.calls, <<>>, "Unable to apply CLT for feature size < 30")
        ELSE ReturnSignificance(slf, Append(n.calls, Call("ttest_1samp", p_t)),
                                <<>>, p_t)

OneSampleTtest(slf, feature, clt, p_t) ==
    LET n == isNormal(slf, feature)
    IN  IF ~n.ret /\ ~clt
        THEN Raise(n.calls, <<>>, "Sample is not Normally distributed")
        ELSE IF ~n.ret /\ feature.len <= CLTLimit
        THEN Raise(n.calls, <<>>, "Unable to apply CLT for feature size < 30")
        ELSE ReturnSignificance(slf, Append(n.calls, Call("ttest_1samp", p_t)),
                                <<>>, p_t)

\* "not isNormal(f1) or not isNormal(f2)": f2 is tested only when f1 is normal
eitherNotNormal(slf, feature1, feature2) ==
    LET n1 == isNormal(slf, feature1)
        n2 == isNormal(slf, feature2)
    IN  IF ~n1.ret THEN [calls |-> n1.calls, ret |-> TRUE]
        ELSE [calls |-> n1.calls \o n2.calls, ret |-> ~n2.ret]

\* "isNormal(f1) and isNormal(f2)": f2 is tested only when f1 is normal
bothNormal(slf, feature1, feature2) ==
    LET n1 == isNormal(slf, feature1)
        n2 == isNormal(slf, feature2)
    IN  IF ~n1.ret THEN [calls |-> n1.calls, ret |-> FALSE]
        ELSE [calls |-> n1.calls \o n2.calls, ret |-> n2.ret]

twoSampleTtestLate(slf, feature1, feature2, clt, p_var, p_t) ==
    LET e == eitherNotNormal(slf, feature1, feature2)
    IN  IF e.ret /\ ~clt
        THEN Raise(e.calls, <<>>, "Samples are not Normally distributed")
        ELSE IF e.ret /\ feature1.len <= CLTLimit
        THEN Raise(e.calls, <<>>, "Unable to apply CLT for feature size < 30")
        ELSE LET v == hasEqualVariance(slf, <<feature1, feature2>>, "levene", p_var)
                 cs == (e.calls \o v.calls) \o <<Call("ttest_ind", p_t)>>
             IN  IF feature1.len # feature2.len
                 THEN Raise(cs, <<>>, "Samples are of different sizes")
                 ELSE ReturnSignificance(slf, cs, <<>>, p_t)

twoSampleTtest(slf, feature1, feature2, clt, p_var, p_t) ==
    IF feature1.len # feature2.len
    THEN Raise(<<>>, <<>>, "Samples are of different sizes")
    ELSE LET e == eitherNotNormal(slf, feature1, feature2)
         IN  IF e.ret /\ ~clt
             THEN Raise(e.calls, <<>>, "Samples are not Normally distributed")
             ELSE IF e.ret /\ feature1.len <= CLTLimit
             THEN Raise(e.calls, <<>>, "Unable to apply CLT for feature size < 30")
             ELSE LET v == hasEqualVariance(slf, <<feature1, feature2>>,
                                            "levene", p_var)
                      cs == (e.calls \o v.calls) \o <<Call("ttest_ind", p_t)>>
                  IN  ReturnSignificance(slf, cs, <<>>, p_t)

\* stats.ttest_rel refuses arrays of unequal length: the library raises, the
\* operation itself has no length check
pairedTtest(slf, feature1, feature2, clt, p_t) ==
    LET e == eitherNotNormal(slf, feature1, feature2)
    IN  IF e.ret /\ ~clt
        THEN Raise(e.calls, <<>>, "Samples are not Normally distributed")
        ELSE IF e.ret /\ feature1.len <= CLTLimit
        THEN Raise(e.calls, <<>>, "Unable to apply CLT for feature size < 30")
        ELSE IF feature1.len # feature2.len
        THEN LibraryRaise(Append(e.calls, Call("ttest_rel", -1)), <<>>)
        ELSE ReturnSignificance(slf, Append(e.calls, Call("ttest_rel", p_t)),
                                <<>>, p_t)

\* the per-sample normality loop of ANOVA: [calls, raised, message]
RECURSIVE anovaNormalityLoop(_, _, _, _)
anovaNormalityLoop(slf, features, clt, i) ==
    IF i > Len(features)
    THEN [calls |-> <<>>, raised |-> FALSE, message |-> ""]
    ELSE LET n == isNormal(slf, features[i])
         IN  IF ~n.ret /\ ~clt
             THEN [calls |-> n.calls, raised |-> TRUE,
                   message |-> "Sample is not Normally distributed"]
             ELSE IF ~n.ret /\ features[i].len <= CLTLimit
             THEN [calls |-> n.calls, raised |-> TRUE,
                   message |-> "Unable to apply CLT for feature size < 30"]
             ELSE LET rest == anovaNormalityLoop(slf, features, clt, i + 1)
                  IN  [calls |-> n.calls \o rest.calls, raised |-> rest.raised,
                       message |-> rest.message]

WarnSameLength == "Please ensure all the samples are of same length.\nTry downsampling the larger samples."

ANOVA(slf, features, clt, p_var, p_f) ==
    LET n == features[1].len
        ws == IF \E i \in 1..Len(features) : features[i].len # n
              THEN <<WarnSameLength>> ELSE <<>>
        l == anovaNormalityLoop(slf, features, clt, 1)
    IN  IF l.raised THEN Raise(l.calls, ws, l.message)
        ELSE LET v == hasEqualVariance(slf, features, "bartlett", p_var)
             IN  IF v.raised THEN Raise(l.calls \o v.calls, ws, v.message)
                 ELSE ReturnSignificance(slf,
                        (l.calls \o v.calls) \o <<Call("f_oneway", p_f)>>,
                        ws, p_f)

\* ------------------------------------------------- rank tests
Abs(x) == IF x < 0 THEN -x ELSE x
Min(x, y) == IF x < y THEN x ELSE y

WarnSizeDiff == "Warning: Large sample size difference may affect test accuracy!"
WarnUseTtest == "Features are normal, Consider using t-test instead"
WarnUsePaired == "Features are normal, Consider using Paired sample t-test instead"

\* abs(len1 - len2) > 0.5 * min(len1, len2), in integers
mannWhitneyUtest(slf, feature1, feature2, p_u) ==
    LET len1 == feature1.len
        len2 == feature2.len
        w1 == IF 2 * Abs(len1 - len2) > Min(len1, len2)
              THEN <<WarnSizeDiff>> ELSE <<>>
        b == bothNormal(slf, feature1, feature2)
        w2 == IF b.ret THEN <<WarnUseTtest>> ELSE <<>>
    IN  ReturnSignificance(slf, Append(b.calls, Call("mannwhitneyu", p_u)),
                           w1 \o w2, p_u)

wilcoxonSignedRanktestLate(slf, feature1, feature2, p_w) ==
    LET b == bothNormal(slf, feature1, feature2)
        w == IF b.ret THEN <<WarnUsePaired>> ELSE <<>>
        cs == Append(b.calls, Call("wilcoxon", p_w))
    IN  IF feature1.len # feature2.len
        THEN Raise(cs, w,
                   "Sample sizes are different.\nTry using samples with same sizes")
        ELSE ReturnSignificance(slf, cs, w, p_w)

wilcoxonSignedRanktest(slf, feature1, feature2, p_w) ==
    IF feature1.len # feature2.len
    THEN Raise(<<>>, <<>>,
               "Sample sizes are different.\nTry using samples with same sizes")
    ELSE LET b == bothNormal(slf, feature1, feature2)
             w == IF b.ret THEN <<WarnUsePaired>> ELSE <<>>
         IN  ReturnSignificance(slf, Append(b.calls, Call("wilcoxon", p_w)),
                                w, p_w)

kruskalWallis(slf, features, p_k) ==
    ReturnSignificance(slf, <<Call("kruskal", p_k)>>, <<>>, p_k)

\* ------------------------------------------------- contingency tests
\* A contingency table is what pd.crosstab returns: a sequence of rows of
\* observed counts in which every row and every column has a positive total.
Cells == {0} \cup ((LowFreq - 1)..MaxCell)
Shapes == {<<2, 2>>, <<1, 5>>}

RECURSIVE SumSeq(_)
SumSeq(q) == IF q = <<>> THEN 0 ELSE Head(q) + SumSeq(Tail(q))

RowTotal(ct, i) == SumSeq(ct[i])
ColTotal(ct, j) == SumSeq([i \in 1..Len(ct) |-> ct[i][j]])
Total(ct) == SumSeq([i \in 1..Len(ct) |-> RowTotal(ct, i)])

Crosstabs ==
    {ct \in UNION {[1..sh[1] -> [1..sh[2] -> Cells]] : sh \in Shapes} :
        /\ \A i \in 1..Len(ct) : RowTotal(ct, i) > 0
        /\ \A j \in 1..Len(ct[1]) : ColTotal(ct, j) > 0}

\* (expected < 5).sum(), with expected[i][j] = row_i * col_j / total as
\* chi2_contingency computes it
lowExpected(ct) ==
    Cardinality({c \in (1..Len(ct)) \X (1..Len(ct[1])) :
        RowTotal(ct, c[1]) * ColTotal(ct, c[2]) < LowFreq * Total(ct)})

expectedSize(ct) == Len(ct) * Len(ct[1])

chiSquareGE(slf, ct, p_chi) ==
    LET cs == <<Call("chi2_contingency", p_chi)>>
    IN  IF 5 * lowExpected(ct) >= expectedSize(ct)
        THEN Raise(cs, <<>>,
               "Some expected frequencies are too small, Fisher's test is preferred.")
        ELSE ReturnSignificance(slf, cs, <<>>, p_chi)

\* (expected < 5).sum() > 0.2 * expected.size, in integers: the double
\* 0.2 * size is never below size / 5 and exceeds it by far less than 1/5,
\* so for an integer count the comparison is 5 * count > size
chiSquare(slf, ct, p_chi) ==
    LET cs == <<Call("chi2_contingency", p_chi)>>
    IN  IF 5 * lowExpected(ct) > expectedSize(ct)
        THEN Raise(cs, <<>>,
               "Some expected frequencies are too small, Fisher's test is preferred.")
        ELSE ReturnSignificance(slf, cs, <<>>, p_chi)

WarnUseChi == "Sample lengths are >=5.\nTry using Chi-Square test."

fisherExacttest(slf, feature1, feature2, p_f) ==
    LET ws == IF feature1.len >= FisherLen /\ feature2.len >= FisherLen
              THEN <<WarnUseChi>> ELSE <<>>
    IN  ReturnSignificance(slf, <<Call("fisher_exact", p_f)>>, ws, p_f)

\* ------------------------------------------------- correlation tests
MsgLengths == "Sample lenghts are not equal.\nTry using downsampling methods."
MsgVariance == "Variance of feature should not be 0.\nTry using Spearman Correlation instead."

pearsonCorrelationBothVar(slf, feature1, feature2, p_r) ==
    IF feature1.len # feature2.len THEN Raise(<<>>, <<>>, MsgLengths)
    ELSE IF feature1.var0 /\ feature2.var0 THEN Raise(<<>>, <<>>, MsgVariance)
    ELSE LET e == eitherNotNormal(slf, feature1, feature2)
         IN  IF e.ret
             THEN Raise(e.calls, <<>>, "Samples are not normally distributed.")
             ELSE ReturnSignificance(slf, Append(e.calls, Call("pearsonr", p_r)),
                                     <<>>, p_r)

pearsonCorrelation(slf, feature1, feature2, p_r) ==
    IF feature1.len # feature2.len THEN Raise(<<>>, <<>>, MsgLengths)
    ELSE IF feature1.var0 \/ feature2.var0 THEN Raise(<<>>, <<>>, MsgVariance)
    ELSE LET e == eitherNotNormal(slf, feature1, feature2)
         IN  IF e.ret
             THEN Raise(e.calls, <<>>, "Samples are not normally distributed.")
             ELSE ReturnSignificance(slf, Append(e.calls, Call("pearsonr", p_r)),
                                     <<>>, p_r)

spearmanCorrelation(slf, feature1, feature2, p_r) ==
    IF feature1.len # feature2.len THEN Raise(<<>>, <<>>, MsgLengths)
    ELSE ReturnSignificance(slf, <<Call("spearmanr", p_r)>>, <<>>, p_r)

\* ------------------------------------------------- the loader
NoneValue == [kind |-> "None", id |-> 0]
DataFrame(n) == [kind |-> "DataFrame", id |-> n]
SheetDict(n) == [kind |-> "dict", id |-> n]

Suffixes == {".csv", ".xlsx", ".txt"}
SheetNames == {"0", "None"}
Contents == 0..MaxTables        \* 0: the file cannot be read

endswith(filepath, suffix) == filepath.suffix = suffix

\* pd.read_csv: a DataFrame, or an exception
read_csv(content) ==
    IF content = 0 THEN [ok |-> FALSE, value |-> NoneValue]
    ELSE [ok |-> TRUE, value |-> DataFrame(content)]

\* pd.read_excel: a DataFrame, a dict of DataFrames when sheet_name is None,
\* or an exception
read_excel(content, sheet_name) ==
    IF content = 0 THEN [ok |-> FALSE, value |-> NoneValue]
    ELSE IF sheet_name = "None" THEN [ok |-> TRUE, value |-> SheetDict(content)]
    ELSE [ok |-> TRUE, value |-> DataFrame(content)]

\* the try block of load_csv / load_excel: self.data is assigned the value
\* read, then self.data.shape is printed, then self.data is returned; any
\* exception is re-raised as RuntimeError
tryLoad(old, read) ==
    IF ~read.ok
    THEN [data |-> old, raised |-> "RuntimeError", ret |-> NoneValue]
    ELSE IF read.value.kind # "DataFrame"
    THEN [data |-> read.value, raised |-> "RuntimeError", ret |-> NoneValue]
    ELSE [data |-> read.value, raised |-> "", ret |-> read.value]

load(old, filepath, suffix, read) ==
    IF ~endswith(filepath, suffix)
    THEN [data |-> old, raised |-> "ValueError", ret |-> NoneValue,
          read_tried |-> FALSE]
    ELSE LET t == tryLoad(old, read)
         IN  [data |-> t.data, raised |-> t.raised, ret |-> t.ret,
              read_tried |-> TRUE]

LoaderEnds(a, r) ==
    /\ data' = r.data
    /\ last_ok' = IF r.raised = "" THEN r.ret ELSE last_ok
    /\ largs' = a
    /\ read_tried' = r.read_tried
    /\ lraised' = r.raised
    /\ lret' = r.ret
    /\ UNCHANGED engine_vars

load_csv ==
    /\ lop' = "load_csv"
    /\ \E sfx \in Suffixes, content \in Contents :
           LET filepath == [suffix |-> sfx, content |-> content]
           IN  LoaderEnds([filepath |-> filepath, sheet_name |-> ""],
                          load(data, filepath, ".csv", read_csv(content)))

load_excel ==
    /\ lop' = "load_excel"
    /\ \E sfx \in Suffixes, content \in Contents, sheet_name \in SheetNames :
           LET filepath == [suffix |-> sfx, content |-> content]
           IN  LoaderEnds([filepath |-> filepath, sheet_name |-> sheet_name],
                          load(data, filepath, ".xlsx",
                               read_excel(content, sheet_name)))

NoLoaderArgs == [filepath |-> [suffix |-> "", content |-> 0], sheet_name |-> ""]

get_data ==
    /\ lop' = "get_data"
    /\ largs' = NoLoaderArgs
    /\ read_tried' = FALSE
    /\ IF data = NoneValue
       THEN lraised' = "ValueError" /\ lret' = NoneValue
       ELSE lraised' = "" /\ lret' = data
    /\ UNCHANGED <<data, last_ok>>
    /\ UNCHANGED engine_vars

\* ------------------------------------------------- the engine's operations
Ends(name, a, r) ==
    /\ pc' = "done"
    /\ op' = name
    /\ args' = a
    /\ calls' = r.calls
    /\ outcome' = r.outcome
    /\ message' = r.message
    /\ result' = r.result
    /\ stdout' = r.stdout
    /\ warned' = r.warned
    /\ answer' = FALSE
    /\ UNCHANGED <<self, ctor_alpha>>
    /\ UNCHANGED loader_vars

\* a predicate called directly: it returns a boolean or raises
PredicateEnds(name, a, r) ==
    /\ pc' = "done"
    /\ op' = name
    /\ args' = a
    /\ calls' = r.calls
    /\ outcome' = IF r.raised THEN "ValueError" ELSE "returned"
    /\ message' = r.message
    /\ result' = NoResult
    /\ stdout' = <<>>
    /\ warned' = <<>>
    /\ answer' = r.ret
    /\ UNCHANGED <<self, ctor_alpha>>
    /\ UNCHANGED loader_vars

IsNormalCall ==
    /\ pc = "idle"
    /\ \E f \in Samples :
           LET n == isNormal(self, f)
           IN  PredicateEnds("isNormal", Args(<<f>>, FALSE, <<>>, ""),
                             [calls |-> n.calls, raised |-> FALSE, message |-> "",
                              ret |-> n.ret])

HasEqualVarianceCall ==
    /\ pc = "idle"
    /\ \E fs \in SampleLists, method \in {"levene", "bartlett"}, p_var \in PVals :
           PredicateEnds("hasEqualVariance", Args(fs, FALSE, <<>>, method),
                         hasEqualVariance(self, fs, method, p_var))

CheckSignificanceCall ==
    /\ pc = "idle"
    /\ \E p_value \in PVals :
           LET v == checkSignificance(self, p_value)
           IN  Ends("checkSignificance", [NoArgs EXCEPT !.p_value = p_value],
                    [calls |-> <<>>, warned |-> <<>>, outcome |-> "returned",
                     message |-> "", result |-> v.ret, stdout |-> v.stdout])

OneSampleTtestCall ==
    /\ pc = "idle"
    /\ \E f \in Samples, clt \in BOOLEAN, p_t \in PVals :
           Ends("OneSampleTtest", Args(<<f>>, clt, <<>>, ""),
                OneSampleTtest(self, f, clt, p_t))

twoSampleTtestCall ==
    /\ pc = "idle"
    /\ \E f1 \in Samples, f2 \in Samples, clt \in BOOLEAN,
          p_var \in PVals, p_t \in PVals :
           Ends("twoSampleTtest", Args(<<f1, f2>>, clt, <<>>, ""),
                twoSampleTtest(self, f1, f2, clt, p_var, p_t))

pairedTtestCall ==
    /\ pc = "idle"
    /\ \E f1 \in Samples, f2 \in Samples, clt \in BOOLEAN, p_t \in PVals :
           Ends("pairedTtest", Args(<<f1, f2>>, clt, <<>>, ""),
                pairedTtest(self, f1, f2, clt, p_t))

ANOVACall ==
    /\ pc = "idle"
    /\ \E fs \in SampleLists, clt \in BOOLEAN, p_var \in PVals, p_f \in PVals :
           Ends("ANOVA", Args(fs, clt, <<>>, ""),
                ANOVA(self, fs, clt, p_var, p_f))

mannWhitneyUtestCall ==
    /\ pc = "idle"
    /\ \E f1 \in Samples, f2 \in Samples, p_u \in PVals :
           Ends("mannWhitneyUtest", Args(<<f1, f2>>, FALSE, <<>>, ""),
                mannWhitneyUtest(self, f1, f2, p_u))

wilcoxonSignedRanktestCall ==
    /\ pc = "idle"
    /\ \E f1 \in Samples, f2 \in Samples, p_w \in PVals :
           Ends("wilcoxonSignedRanktest", Args(<<f1, f2>>, FALSE, <<>>, ""),
                wilcoxonSignedRanktest(self, f1, f2, p_w))

kruskalWallisCall ==
    /\ pc = "idle"
    /\ \E fs \in SampleLists, p_k \in PVals :
           Ends("kruskalWallis", Args(fs, FALSE, <<>>, ""),
                kruskalWallis(self, fs, p_k))

chiSquareCall ==
    /\ pc = "idle"
    /\ \E ct \in Crosstabs, p_chi \in PVals :
           Ends("chiSquare", Args(<<>>, FALSE, ct, ""),
                chiSquare(self, ct, p_chi))

fisherExacttestCall ==
    /\ pc = "idle"
    /\ \E f1 \in CatSamples, f2 \in CatSamples, p_f \in PVals :
           Ends("fisherExacttest", Args(<<f1, f2>>, FALSE, <<>>, ""),
                fisherExacttest(self, f1, f2, p_f))

pearsonCorrelationCall ==
    /\ pc = "idle"
    /\ \E f1 \in VarSamples, f2 \in VarSamples, p_r \in PVals :
           Ends("pearsonCorrelation", Args(<<f1, f2>>, FALSE, <<>>, ""),
                pearsonCorrelation(self, f1, f2, p_r))

spearmanCorrelationCall ==
    /\ pc = "idle"
    /\ \E f1 \in Samples, f2 \in Samples, p_r \in PVals :
           Ends("spearmanCorrelation", Args(<<f1, f2>>, FALSE, <<>>, ""),
                spearmanCorrelation(self, f1, f2, p_r))

\* the caller has taken the outcome; the same instance serves the next call
NextCall ==
    /\ pc = "done"
    /\ pc' = "idle"
    /\ op' = ""
    /\ args' = NoArgs
    /\ calls' = <<>>
    /\ outcome' = ""
    /\ message' = ""
    /\ result' = NoResult
    /\ stdout' = <<>>
    /\ warned' = <<>>
    /\ answer' = FALSE
    /\ UNCHANGED <<self, ctor_alpha>>
    /\ UNCHANGED loader_vars

\* ------------------------------------------------- specifications
Init ==
    /\ \E significance_level \in Alphas :
        /\ ctor_alpha = significance_level
        /\ self = TestHypothesisInit(significance_level)
    /\ pc = "idle"
    /\ op = ""
    /\ args = NoArgs
    /\ calls = <<>>
    /\ outcome = ""
    /\ message = ""
    /\ result = NoResult
    /\ stdout = <<>>
    /\ warned = <<>>
    /\ answer = FALSE
    /\ data = NoneValue
    /\ last_ok = NoneValue
    /\ lop = ""
    /\ largs = NoLoaderArgs
    /\ read_tried = FALSE
    /\ lraised = ""
    /\ lret = NoneValue

Next ==
    \/ IsNormalCall
    \/ HasEqualVarianceCall
    \/ CheckSignificanceCall
    \/ OneSampleTtestCall
    \/ twoSampleTtestCall
    \/ pairedTtestCall
    \/ ANOVACall
    \/ mannWhitneyUtestCall
    \/ wilcoxonSignedRanktestCall
    \/ kruskalWallisCall
    \/ chiSquareCall
    \/ fisherExacttestCall
    \/ pearsonCorrelationCall
    \/ spearmanCorrelationCall
    \/ NextCall

Spec == Init /\ [][Next]_vars

NextLoader ==
    \/ load_csv
    \/ load_excel
    \/ get_data

SpecLoader == Init /\ [][NextLoader]_vars

\* ------------------------------------------------- properties
TestOps == {"OneSampleTtest", "twoSampleTtest", "pairedTtest", "ANOVA",
            "mannWhitneyUtest", "wilcoxonSignedRanktest", "kruskalWallis",
            "chiSquare", "fisherExacttest", "pearsonCorrelation",
            "spearmanCorrelation"}

\* the library tests other than the normality tests of isNormal
StatTests == {"ttest_1samp", "ttest_ind", "ttest_rel", "f_oneway", "bartlett",
              "levene", "chi2_contingency", "fisher_exact", "pearsonr",
              "spearmanr", "mannwhitneyu", "wilcoxon", "kruskal"}

FinalTest(o) ==
    CASE o = "OneSampleTtest" -> "ttest_1samp"
      [] o = "twoSampleTtest" -> "ttest_ind"
      [] o = "pairedTtest" -> "ttest_rel"
      [] o = "ANOVA" -> "f_oneway"
      [] o = "mannWhitneyUtest" -> "mannwhitneyu"
      [] o = "wilcoxonSignedRanktest" -> "wilcoxon"
      [] o = "kruskalWallis" -> "kruskal"
      [] o = "chiSquare" -> "chi2_contingency"
      [] o = "fisherExacttest" -> "fisher_exact"
      [] o = "pearsonCorrelation" -> "pearsonr"
      [] o = "spearmanCorrelation" -> "spearmanr"

Alpha == self.significance_level
NotNormal(f) == ~(f.pnorm > Alpha)
NoStatTestCalled == \A i \in 1..Len(calls) : calls[i].fn \notin StatTests
Verdict(p) == [rejected |-> (p < Alpha), p_value |-> p]
VerdictLine(r) == IF r.rejected THEN <<MsgRejected>> ELSE <<MsgNotEnough>>

\* C1: checkSignificance(p_value) returns (p_value < alpha, p_value), and
\* every test operation that returns normally returns that pair for the
\* p-value of the last library test it ran, which is the operation's own
\* test; the rejected line is printed iff rejected, the other line otherwise.
C1_SignificanceVerdict ==
    /\ op = "checkSignificance" =>
        /\ outcome = "returned"
        /\ result = Verdict(args.p_value)
        /\ stdout = VerdictLine(result)
    /\ (op \in TestOps /\ outcome = "returned") =>
        /\ calls # <<>>
        /\ calls[Len(calls)].fn = FinalTest(op)
        /\ result = Verdict(calls[Len(calls)].p)
        /\ stdout = VerdictLine(result)

C1_Witness ==
    /\ op = "twoSampleTtest"
    /\ outcome = "returned"
    /\ result.p_value = Alpha
    /\ ~result.rejected
    /\ stdout = <<MsgNotEnough>>

\* C2 as stated: whenever a test operation ends in a validation error, no
\* statistics-library test was called earlier in that operation.
C2_NoTestBeforeValidationError ==
    (op \in TestOps /\ outcome = "ValueError") => NoStatTestCalled

\* C2 amended: that holds of every test operation but chiSquare; chiSquare
\* raises its validation error after exactly one library test, the chi-square
\* contingency test whose expected frequencies it inspects.
C2_NoTestBeforeValidationErrorButChiSquare ==
    (op \in TestOps /\ outcome = "ValueError") =>
        IF op = "chiSquare"
        THEN Len(calls) = 1 /\ calls[1].fn = "chi2_contingency"
        ELSE NoStatTestCalled

C2_Witness ==
    /\ op = "wilcoxonSignedRanktest"
    /\ outcome = "ValueError"
    /\ args.features[1].len # args.features[2].len
    /\ calls = <<>>

\* C3: twoSampleTtest on samples of unequal length raises the length error
\* whatever clt, the normality of the samples and the variance test say, and
\* has called neither a normality test, the variance test nor the t-test.
C3_UnequalLengthsRaise ==
    (op = "twoSampleTtest" /\ args.features[1].len # args.features[2].len) =>
        /\ outcome = "ValueError"
        /\ message = "Samples are of different sizes"
        /\ calls = <<>>

C3_Witness ==
    /\ op = "twoSampleTtest"
    /\ args.features[1].len # args.features[2].len
    /\ args.clt
    /\ NotNormal(args.features[1])
    /\ ~NotNormal(args.features[2])
    /\ outcome = "ValueError"

\* C4: OneSampleTtest raises a validation error iff the sample is not normal
\* and (clt is false or its size is <= 30); otherwise the one-sample t-test
\* is run and its p-value goes to checkSignificance.
C4_OneSampleRaisesIff ==
    op = "OneSampleTtest" =>
        LET f == args.features[1]
        IN  /\ (outcome = "ValueError") <=>
                   (NotNormal(f) /\ (~args.clt \/ f.len <= 30))
            /\ (outcome # "ValueError") =>
                /\ outcome = "returned"
                /\ calls[Len(calls)].fn = "ttest_1samp"
                /\ result = Verdict(calls[Len(calls)].p)

C4_Witness ==
    /\ op = "OneSampleTtest"
    /\ args.clt
    /\ NotNormal(args.features[1])
    /\ args.features[1].len = 31
    /\ outcome = "returned"

\* the number of cells of ct whose expected frequency is below 5
LowCells(ct) ==
    Cardinality({c \in (1..Len(ct)) \X (1..Len(ct[1])) :
        RowTotal(ct, c[1]) * ColTotal(ct, c[2]) < 5 * Total(ct)})

\* C5: chiSquare raises a validation error iff strictly more than 20% of the
\* expected cells are below 5; otherwise it returns checkSignificance of the
\* chi-square p-value.
C5_ChiSquareRaisesIff ==
    op = "chiSquare" =>
        /\ (outcome = "ValueError") <=>
               (5 * LowCells(args.ct) > Len(args.ct) * Len(args.ct[1]))
        /\ (outcome # "ValueError") =>
            /\ outcome = "returned"
            /\ result = Verdict(calls[1].p)

\* exactly 20% of the cells are low, one more cell is exactly 5
C5_Witness ==
    /\ op = "chiSquare"
    /\ Len(args.ct) = 1
    /\ 5 * LowCells(args.ct) = Len(args.ct[1])
    /\ \E j \in 1..Len(args.ct[1]) : args.ct[1][j] = 5
    /\ outcome = "returned"

\* C6: pearsonCorrelation raises whenever either sample has zero variance;
\* the length check comes first, the variance check second, the normality
\* check third, and pearsonr is reached only when all three pass.
C6_PearsonChecksInOrder ==
    op = "pearsonCorrelation" =>
        LET f1 == args.features[1]
            f2 == args.features[2]
        IN  /\ (f1.var0 \/ f2.var0) => (outcome = "ValueError" /\ calls = <<>>)
            /\ (f1.len # f2.len) => message = MsgLengths
            /\ (f1.len = f2.len /\ (f1.var0 \/ f2.var0)) => message = MsgVariance
            /\ (\E i \in 1..Len(calls) : calls[i].fn = "pearsonr") =>
                /\ f1.len = f2.len
                /\ ~f1.var0 /\ ~f2.var0
                /\ ~NotNormal(f1) /\ ~NotNormal(f2)

C6_Witness ==
    /\ op = "pearsonCorrelation"
    /\ args.features[1].len = args.features[2].len
    /\ ~args.features[1].var0
    /\ ~NotNormal(args.features[1])
    /\ args.features[2].var0
    /\ message = MsgVariance

\* C7: data is the table of the most recent load that returned normally (a
\* load that raised left it alone), the extension error is raised before any
\* read, and get_data returns that table or raises when there is none.
C7_LoaderKeepsLastGoodTable ==
    /\ data = last_ok
    /\ (lop \in {"load_csv", "load_excel"} /\ lraised = "ValueError") =>
           ~read_tried
    /\ lop = "get_data" =>
           IF last_ok = NoneValue THEN lraised = "ValueError"
           ELSE lraised = "" /\ lret = last_ok

\* C8: whatever operations have run and however they ended, the instance has
\* the one attribute significance_level, holding the constructor's argument.
C8_SignificanceLevelFixed ==
    /\ DOMAIN self = {"significance_level"}
    /\ self.significance_level = ctor_alpha

C8_Witness ==
    /\ pc = "done"
    /\ op = "ANOVA"
    /\ outcome = "ValueError"
    /\ warned # <<>>
    /\ ctor_alpha # AlphaDefault

\* C9: pairedTtest raises a validation error whenever one of its two samples
\* is not normal and clt is false or that sample's size is <= 30.
C9_PairedRaisesForSmallNonNormal ==
    op = "pairedTtest" =>
        ((\E i \in 1..2 : /\ NotNormal(args.features[i])
                          /\ (~args.clt \/ args.features[i].len <= 30))
            => outcome = "ValueError")

\* C10: whenever every sample passes ANOVA's own normality/clt check, the
\* bartlett variance check does not raise and the F-test is run and its
\* p-value goes to checkSignificance.
C10_BartlettCheckRedundant ==
    op = "ANOVA" =>
        ((\A i \in 1..Len(args.features) :
              \/ ~NotNormal(args.features[i])
              \/ (args.clt /\ args.features[i].len > 30))
            => /\ outcome = "returned"
               /\ calls[Len(calls)].fn = "f_oneway"
               /\ result = Verdict(calls[Len(calls)].p))

====
